---- MODULE Spec2Model ----
(***************************************************************************)
(* The Auto Complete Tree (ACT) of src/lib/trie.js as a state machine.     *)
(*                                                                         *)
(* A string is a sequence of one-character strings.  A TrieNode is named   *)
(* by the path of characters that leads to it from the root, and the tree  *)
(* is a function from these paths to nodes.  A node's children Map is kept *)
(* as the sequence of its keys in insertion order, which is the order in   *)
(* which JavaScript iterates a Map.                                        *)
(*                                                                         *)
(* The AutoCompleteEngine of src/lib/autocomplete.js owns one such tree,   *)
(* a snapshot of the words it was built from and the time of its last      *)
(* rebuild; the change monitor of src/lib/parser.js proposes rebuilds.     *)
(*                                                                         *)
(* The content script of src/content/content.js owns the engine: it calls  *)
(* init() when the page has loaded and reset() and init() again on every   *)
(* navigation.  JavaScript runs each handler to its end or to its next     *)
(* await, so an action is a handler from one await to the next.            *)
(***************************************************************************)
EXTENDS Integers, Sequences, FiniteSets, TLC

VARIABLES root,      \* ACT.root: the tree, [path -> TrieNode]
          inserted,  \* history: the words insert() accepted so far
          ret,       \* the call in progress: its arguments and what it returns
          engine,    \* the fields of the AutoCompleteEngine, its trie apart
          now,       \* Date.now()
          monitor,   \* the change monitor: its observers, its last rebuild
          page       \* the document and the calls that wait for an await

vars == <<root, inserted, ret, engine, now, monitor, page>>

(***************************************************************************)
(* Bounds                                                                  *)
(***************************************************************************)
\* the longest word or query drawn by an operation
MaxLen == 2
\* the number of distinct words inserted in one behaviour
MaxInserts == 1
\* the largest maxResults drawn by fuzzySearch and search
MaxResults == 2
\* the largest maxDistance drawn by fuzzySearch
MaxDistance == 1
\* the longest string drawn for levenshteinDistance
MaxLevLen == 3
\* the characters of a list of suggestions handed to rankSuggestions
MaxRankChars == 4
\* the longest typed word handed to rankSuggestions
MaxTypedLen == 1
\* the most words in a word list and in the engine's snapshot
MaxWords == 2
\* the most observers the change monitor gets
MaxObservers == 2
\* the milliseconds that pass while the engine is rebuilt
MaxTicks == 1
\* the steps the clock takes while the change monitor is watched
MaxThrottleTicks == 3
\* Date.now() when the engine is constructed, far above updateThreshold
StartTime == 10000
\* the most suggestion boxes the document gets
MaxBoxes == 3
\* the largest maxResults drawn for fuzzySearch on a tree of several words
MaxFuzzyResults == 3
\* the number of distinct words inserted while the tree's shape is watched
MaxShapeInserts == 3

\* search() calls fuzzySearch(query, 2, maxResults * 2)
SearchDistance == 2

Sigma == {"a", "b", "A"}

Strings(n) == UNION {[1..k -> Sigma] : k \in 0..n}

Words == Strings(MaxLen)

(***************************************************************************)
(* String.prototype.toLowerCase                                            *)
(***************************************************************************)
toLowerCaseChar(c) ==
    CASE c = "A" -> "a"
      [] c = "B" -> "b"
      [] c = "C" -> "c"
      [] OTHER -> c

toLowerCase(s) == [i \in 1..Len(s) |-> toLowerCaseChar(s[i])]

(***************************************************************************)
(* TrieNode and the ACT constructor                                        *)
(***************************************************************************)
TrieNode == [isEndOfWord |-> FALSE, children |-> <<>>]

NewACT == (<<>> :> TrieNode)

\* Map.prototype.has on a node's children
has(children, letter) == \E i \in 1..Len(children) : children[i] = letter

(***************************************************************************)
(* Values that are no strings.  A word handed to the engine is a string,   *)
(* or the array ['a', 'b', 'c']: the sequence whose first element, which   *)
(* is no character, marks it as an array.                                  *)
(***************************************************************************)
NotAString == <<"Array", "a", "b", "c">>

\* typeof word === 'string'
isString(word) == Len(word) = 0 \/ word[1] # "Array"

\* word.length
length(word) == IF isString(word) THEN Len(word) ELSE Len(word) - 1

(***************************************************************************)
(* insert                                                                  *)
(***************************************************************************)
RECURSIVE insertAllLetters(_, _, _, _)
\* insertAllLetters that marks every node it passes as the end of a word
insertAllLettersMarkingPath(t, node, word, index) ==
    IF index = Len(word) + 1
    THEN [t EXCEPT ![node].isEndOfWord = TRUE]
    ELSE LET letter == word[index]
             child  == Append(node, letter)
             marked == [t EXCEPT ![node].isEndOfWord = node # <<>>]
         IN  IF ~has(t[node].children, letter)
             THEN insertAllLetters(
                      (child :> TrieNode) @@
                          [marked EXCEPT ![node].children = Append(@, letter)],
                      child, word, index + 1)
             ELSE insertAllLetters(marked, child, word, index + 1)

\* insertAllLetters without the children.has test: every letter gets a new node
insertAllLettersAlwaysNew(t, node, word, index) ==
    IF index = Len(word) + 1
    THEN [t EXCEPT ![node].isEndOfWord = TRUE]
    ELSE LET letter == word[index]
             child  == Append(node, letter)
         IN  insertAllLetters(
                 (child :> TrieNode) @@
                     [t EXCEPT ![node].children = Append(@, letter)],
                 child, word, index + 1)

insertAllLetters(t, node, word, index) ==
    IF index = Len(word) + 1
    THEN [t EXCEPT ![node].isEndOfWord = TRUE]
    ELSE LET letter == word[index]
             child  == Append(node, letter)
         IN  IF ~has(t[node].children, letter)
             THEN insertAllLetters(
                      (child :> TrieNode) @@
                          [t EXCEPT ![node].children = Append(@, letter)],
                      child, word, index + 1)
             ELSE insertAllLetters(t, child, word, index + 1)

\* insert without the lowercased copy
insertOriginalOnly(t, word) ==
    IF word = <<>> THEN t ELSE insertAllLetters(t, <<>>, word, 1)

insert(t, word) ==
    IF word = <<>> \/ ~isString(word)
    THEN t
    ELSE LET t1 == insertAllLetters(t, <<>>, word, 1)
         IN  IF word # toLowerCase(word)
             THEN insertAllLetters(t1, <<>>, toLowerCase(word), 1)
             ELSE t1

(***************************************************************************)
(* autoComplete                                                            *)
(***************************************************************************)
RECURSIVE findAllWordsFromNode(_, _, _, _)
RECURSIVE findAllWordsFromChildren(_, _, _, _, _)
findAllWordsFromNode(t, node, prefix, suggestions) ==
    findAllWordsFromChildren(t, node, prefix,
        IF t[node].isEndOfWord THEN Append(suggestions, prefix) ELSE suggestions,
        1)

\* the for-of loop of findAllWordsFromNode, from the i-th child on
findAllWordsFromChildren(t, node, prefix, suggestions, i) ==
    IF i > Len(t[node].children)
    THEN suggestions
    ELSE LET char == t[node].children[i]
         IN  findAllWordsFromChildren(t, node, prefix,
                 findAllWordsFromNode(t, Append(node, char),
                                      Append(prefix, char), suggestions),
                 i + 1)

\* the walk along the letters of a word, shared by autoComplete and contains
RECURSIVE navigate(_, _, _, _)
navigate(t, node, word, i) ==
    IF i > Len(word)
    THEN [found |-> TRUE, node |-> node]
    ELSE IF ~has(t[node].children, word[i])
         THEN [found |-> FALSE, node |-> node]
         ELSE navigate(t, Append(node, word[i]), word, i + 1)

autoComplete(t, prefix) ==
    LET lowerPrefix == toLowerCase(prefix)
        at          == navigate(t, <<>>, lowerPrefix, 1)
    IN  IF ~at.found
        THEN <<>>
        ELSE findAllWordsFromNode(t, at.node, lowerPrefix, <<>>)

(***************************************************************************)
(* levenshteinDistance                                                     *)
(***************************************************************************)
Min3(x, y, z) ==
    IF x <= y /\ x <= z THEN x ELSE IF y <= z THEN y ELSE z

\* levenshteinDistance without the insertion case
levenshteinDistanceNoInsertion(str1, str2) ==
    LET matrix[i \in 0..Len(str2), j \in 0..Len(str1)] ==
            IF i = 0 THEN j
            ELSE IF j = 0 THEN i
            ELSE IF str2[i] = str1[j]
                 THEN matrix[i - 1, j - 1]
                 ELSE IF matrix[i - 1, j - 1] <= matrix[i - 1, j]
                      THEN matrix[i - 1, j - 1] + 1
                      ELSE matrix[i - 1, j] + 1
    IN  matrix[Len(str2), Len(str1)]

levenshteinDistance(str1, str2) ==
    LET matrix[i \in 0..Len(str2), j \in 0..Len(str1)] ==
            IF i = 0 THEN j
            ELSE IF j = 0 THEN i
            ELSE IF str2[i] = str1[j]
                 THEN matrix[i - 1, j - 1]
                 ELSE Min3(matrix[i - 1, j - 1] + 1,
                           matrix[i, j - 1] + 1,
                           matrix[i - 1, j] + 1)
    IN  matrix[Len(str2), Len(str1)]

(***************************************************************************)
(* fuzzySearch                                                             *)
(***************************************************************************)
Abs(x) == IF x < 0 THEN -x ELSE x

RECURSIVE fuzzySearchHelper(_, _, _, _, _, _, _)
RECURSIVE fuzzySearchChildren(_, _, _, _, _, _, _, _)
\* fuzzySearchHelper accepting one edit more than maxDistance
fuzzySearchHelperOffByOne(t, node, currentWord, query, depth, maxDistance, results) ==
    LET distance == levenshteinDistance(currentWord, query)
        found    == IF t[node].isEndOfWord /\ Len(currentWord) > 0
                       /\ distance <= maxDistance + 1
                    THEN Append(results,
                                [word |-> currentWord, distance |-> distance])
                    ELSE results
        minPossibleDistance == Abs(Len(currentWord) - Len(query))
    IN  IF minPossibleDistance > maxDistance
        THEN found
        ELSE fuzzySearchChildren(t, node, currentWord, query, depth,
                                 maxDistance, found, 1)

fuzzySearchHelper(t, node, currentWord, query, depth, maxDistance, results) ==
    LET distance == levenshteinDistance(currentWord, query)
        found    == IF t[node].isEndOfWord /\ Len(currentWord) > 0
                       /\ distance <= maxDistance
                    THEN Append(results,
                                [word |-> currentWord, distance |-> distance])
                    ELSE results
        minPossibleDistance == Abs(Len(currentWord) - Len(query))
    IN  IF minPossibleDistance > maxDistance
        THEN found
        ELSE fuzzySearchChildren(t, node, currentWord, query, depth,
                                 maxDistance, found, 1)

\* the for-of loop of fuzzySearchHelper, from the i-th child on
fuzzySearchChildren(t, node, currentWord, query, depth, maxDistance, results, i) ==
    IF i > Len(t[node].children)
    THEN results
    ELSE LET char    == t[node].children[i]
             newWord == Append(currentWord, char)
         IN  fuzzySearchChildren(t, node, currentWord, query, depth, maxDistance,
                 IF Len(newWord) <= Len(query) + maxDistance
                 THEN fuzzySearchHelper(t, Append(node, char), newWord, query,
                                        depth + 1, maxDistance, results)
                 ELSE results,
                 i + 1)

\* a comparator that looks at the length alone
compareResultsByLength(a, b) ==
    Len(a.word) - Len(b.word)

\* the comparator handed to results.sort
compareResults(a, b) ==
    IF a.distance # b.distance
    THEN a.distance - b.distance
    ELSE Len(a.word) - Len(b.word)

\* Array.prototype.sort, which is stable: x goes behind every element that
\* does not compare greater than it
insertSorted(sorted, x) ==
    LET k == Cardinality({i \in 1..Len(sorted) : compareResults(sorted[i], x) <= 0})
    IN  SubSeq(sorted, 1, k) \o <<x>> \o SubSeq(sorted, k + 1, Len(sorted))

RECURSIVE sortResults(_, _, _)
sortResults(results, sorted, i) ==
    IF i > Len(results)
    THEN sorted
    ELSE sortResults(results, insertSorted(sorted, results[i]), i + 1)

\* the loop that drops duplicates and stops at maxResults
RECURSIVE uniqueResults(_, _, _, _)
uniqueResults(results, maxResults, unique, i) ==
    IF i > Len(results)
    THEN unique
    ELSE uniqueResults(results, maxResults,
             IF (\A j \in 1..Len(unique) : unique[j] # results[i].word)
                /\ Len(unique) < maxResults
             THEN Append(unique, results[i].word)
             ELSE unique,
             i + 1)

fuzzySearch(t, query, maxDistance, maxResults) ==
    LET lowerQuery == toLowerCase(query)
        results    == fuzzySearchHelper(t, <<>>, <<>>, lowerQuery, 0,
                                        maxDistance, <<>>)
    IN  uniqueResults(sortResults(results, <<>>, 1), maxResults, <<>>, 1)

(***************************************************************************)
(* search                                                                  *)
(***************************************************************************)
\* Array.prototype.slice(0, n)
slice(s, n) == SubSeq(s, 1, IF n < Len(s) THEN n ELSE Len(s))

\* the loop that appends the fuzzy matches that are no exact match
RECURSIVE combine(_, _, _, _, _)
\* combine without the exactSet test: an exact match is appended again
combineNoExactSet(exactMatches, fuzzyMatches, maxResults, combined, i) ==
    IF i > Len(fuzzyMatches)
    THEN combined
    ELSE combine(exactMatches, fuzzyMatches, maxResults,
             IF Len(combined) < maxResults
             THEN Append(combined, fuzzyMatches[i])
             ELSE combined,
             i + 1)

combine(exactMatches, fuzzyMatches, maxResults, combined, i) ==
    IF i > Len(fuzzyMatches)
    THEN combined
    ELSE combine(exactMatches, fuzzyMatches, maxResults,
             IF (\A j \in 1..Len(exactMatches) : exactMatches[j] # fuzzyMatches[i])
                /\ Len(combined) < maxResults
             THEN Append(combined, fuzzyMatches[i])
             ELSE combined,
             i + 1)

\* search without the empty-query return
searchNoEmptyCheck(t, query, maxResults) ==
    LET exactMatches == autoComplete(t, query)
    IN  IF Len(exactMatches) >= maxResults
        THEN [value |-> slice(exactMatches, maxResults), lookups |-> 1]
        ELSE LET fuzzyMatches ==
                     fuzzySearch(t, query, SearchDistance, maxResults * 2)
                 combined ==
                     combine(exactMatches, fuzzyMatches, maxResults,
                             exactMatches, 1)
             IN  [value |-> slice(combined, maxResults), lookups |-> 2]

\* search's return value, and the number of tree lookups (autoComplete and
\* fuzzySearch calls) it made
search(t, query, maxResults) ==
    IF Len(query) = 0
    THEN [value |-> <<>>, lookups |-> 0]
    ELSE LET exactMatches == autoComplete(t, query)
         IN  IF Len(exactMatches) >= maxResults
             THEN [value |-> slice(exactMatches, maxResults), lookups |-> 1]
             ELSE LET fuzzyMatches ==
                          fuzzySearch(t, query, SearchDistance, maxResults * 2)
                      combined ==
                          combine(exactMatches, fuzzyMatches, maxResults,
                                  exactMatches, 1)
                  IN  [value |-> slice(combined, maxResults), lookups |-> 2]

(***************************************************************************)
(* size and contains                                                       *)
(***************************************************************************)
RECURSIVE countWords(_, _)
RECURSIVE countChildren(_, _, _, _)
\* countWords counting every node, terminal or not
countWordsEveryNode(t, node) ==
    countChildren(t, node, 1, 1)

countWords(t, node) ==
    countChildren(t, node, IF t[node].isEndOfWord THEN 1 ELSE 0, 1)

\* the for-of loop of countWords, from the i-th child on
countChildren(t, node, count, i) ==
    IF i > Len(t[node].children)
    THEN count
    ELSE countChildren(t, node,
             count + countWords(t, Append(node, t[node].children[i])), i + 1)

size(t) == countWords(t, <<>>)

\* contains without the isEndOfWord test: any stored path counts
containsPath(t, word) ==
    navigate(t, <<>>, toLowerCase(word), 1).found

contains(t, word) ==
    LET at == navigate(t, <<>>, toLowerCase(word), 1)
    IN  at.found /\ t[at.node].isEndOfWord

(***************************************************************************)
(* AutoCompleteEngine (src/lib/autocomplete.js).  The file declares the    *)
(* class twice; the operators below follow the later declaration, which    *)
(* is the one that carries the complex-identifier support, and the         *)
(* operators named ...First follow the earlier one.  The engine's trie is  *)
(* the variable root.                                                      *)
(***************************************************************************)
\* this.updateThreshold, in milliseconds
updateThreshold == 5000

\* this.settings as the constructor sets it
DefaultSettings ==
    [enabled |-> TRUE, maxSuggestions |-> 10, minWordLength |-> 2,
     debounceDelay |-> 300, fuzzyMatching |-> TRUE, caseInsensitive |-> TRUE]

\* the fields the constructor sets, the trie apart
NewEngine ==
    [isInitialized |-> FALSE, currentSuggestions |-> <<>>,
     maxSuggestions |-> 10, wordCache |-> {}, lastUpdateTime |-> 0,
     updateThreshold |-> updateThreshold, settings |-> DefaultSettings]

\* this.triggerCharacters
triggerCharacters ==
    {".", "_", "-", ":", "/", "#", "@", "$", "{", "(", "[", " ", "\n", "\t"}

\* the character classes of the regular expressions: a-z, the upper-case
\* letters toLowerCase knows, and two digits
az == {"a", "b", "c", "d", "e", "f", "g", "h", "i", "j", "k", "l", "m",
       "n", "o", "p", "q", "r", "s", "t", "u", "v", "w", "x", "y", "z"}
AZ == {"A", "B", "C"}
Digits == {"0", "1"}

\* String.prototype.includes for one character
includes(s, c) == \E i \in 1..Len(s) : s[i] = c

\* String.prototype.startsWith
startsWith(s, p) == Len(p) <= Len(s) /\ SubSeq(s, 1, Len(p)) = p

\* Math.max
Max(x, y) == IF x >= y THEN x ELSE y

isComplexIdentifier(word) ==
    \/ includes(word, ".")
    \/ includes(word, "_")
    \/ includes(word, "-")
    \/ includes(word, "(")
    \/ includes(word, "[")

\* /^[first][rest]*$/
matchesClasses(s, first, rest) ==
    /\ Len(s) >= 1
    /\ s[1] \in first
    /\ \A i \in 2..Len(s) : s[i] \in rest

\* /^[a-z][a-z0-9]*\.[a-z][a-z0-9]*$/
matchesProperty(s) ==
    \E k \in 1..Len(s) :
        /\ s[k] = "."
        /\ matchesClasses(SubSeq(s, 1, k - 1), az, az \cup Digits)
        /\ matchesClasses(SubSeq(s, k + 1, Len(s)), az, az \cup Digits)

isCommonProgrammingPattern(word) ==
    \* snake_case
    \/ matchesClasses(word, az \cup {"_"}, az \cup Digits \cup {"_"})
    \* kebab-case
    \/ matchesClasses(word, az, az \cup Digits \cup {"-"})
    \* obj.property
    \/ matchesProperty(word)
    \* obj.method()
    \/ /\ Len(word) >= 2
       /\ SubSeq(word, Len(word) - 1, Len(word)) = <<"(", ")">>
       /\ matchesProperty(SubSeq(word, 1, Len(word) - 2))
    \* array[index]
    \/ \E k \in 1..Len(word) :
           /\ word[k] = "["
           /\ matchesClasses(SubSeq(word, 1, k - 1), az, az \cup Digits)
           /\ word[Len(word)] = "]"
           /\ Len(word) - k >= 2
           /\ \A i \in (k + 1)..(Len(word) - 1) : word[i] # "]"

\* getSuggestionScore with a prefix bonus that the other bonuses can outweigh
getSuggestionScoreSmallPrefixBonus(settings, suggestion, currentWord) ==
    LET suggestionLower ==
            IF settings.caseInsensitive THEN toLowerCase(suggestion) ELSE suggestion
    IN  (IF startsWith(suggestionLower, currentWord) THEN 10 ELSE 0)
        + (IF isComplexIdentifier(suggestion) THEN 20 ELSE 0)
        + (IF isComplexIdentifier(suggestion) /\ includes(suggestion, "_") THEN 5 ELSE 0)
        + Max(0, 20 - Len(suggestion))
        + (IF isCommonProgrammingPattern(suggestion) THEN 15 ELSE 0)

\* currentWord is the typed word as rankSuggestions compares it
getSuggestionScore(settings, suggestion, currentWord) ==
    LET suggestionLower ==
            IF settings.caseInsensitive THEN toLowerCase(suggestion) ELSE suggestion
    IN  \* exact prefix match, and its bonus for an exact match
        (IF startsWith(suggestionLower, currentWord)
         THEN 100 + (IF suggestionLower = currentWord THEN 50 ELSE 0)
         ELSE 0)
        \* complex identifier
        + (IF isComplexIdentifier(suggestion)
           THEN 20
                + (IF includes(suggestion, ".") THEN 10 ELSE 0)
                + (IF includes(suggestion, "_") \/ includes(suggestion, "-")
                   THEN 5 ELSE 0)
           ELSE 0)
        \* shorter suggestions
        + Max(0, 20 - Len(suggestion))
        \* common programming patterns
        + (IF isCommonProgrammingPattern(suggestion) THEN 15 ELSE 0)

\* String.prototype.localeCompare as the browser's collation gives it for
\* these characters: punctuation sorts before digits and digits before
\* letters, letters sort alphabetically without regard to case, and between
\* words that are equal so far lower case sorts before upper case
collationWeight(c) ==
    CASE c = "_" -> 1
      [] c = "-" -> 2
      [] c = "." -> 3
      [] c = "(" -> 4
      [] c = "[" -> 5
      [] c = "0" -> 6
      [] c = "1" -> 7
      [] toLowerCaseChar(c) = "a" -> 8
      [] toLowerCaseChar(c) = "b" -> 9
      [] OTHER -> 10

RECURSIVE compareWeights(_, _, _)
compareWeights(a, b, i) ==
    IF i > Len(a) /\ i > Len(b) THEN 0
    ELSE IF i > Len(a) THEN -1
    ELSE IF i > Len(b) THEN 1
    ELSE IF collationWeight(a[i]) # collationWeight(b[i])
         THEN (IF collationWeight(a[i]) < collationWeight(b[i]) THEN -1 ELSE 1)
         ELSE compareWeights(a, b, i + 1)

RECURSIVE compareCase(_, _, _)
compareCase(a, b, i) ==
    IF i > Len(a) THEN 0
    ELSE IF a[i] = b[i] THEN compareCase(a, b, i + 1)
    ELSE IF a[i] \in AZ THEN 1 ELSE -1

localeCompare(a, b) ==
    IF compareWeights(a, b, 1) # 0
    THEN compareWeights(a, b, 1)
    ELSE compareCase(a, b, 1)

\* the comparator of the later rankSuggestions
compareSuggestions(settings, a, b, currentWordLower) ==
    LET scoreA == getSuggestionScore(settings, a, currentWordLower)
        scoreB == getSuggestionScore(settings, b, currentWordLower)
    IN  IF scoreA # scoreB THEN scoreB - scoreA
        ELSE IF Len(a) # Len(b) THEN Len(a) - Len(b)
        ELSE localeCompare(a, b)

\* the comparator of the earlier rankSuggestions
compareSuggestionsFirst(settings, a, b, currentWordLower) ==
    LET aLower == IF settings.caseInsensitive THEN toLowerCase(a) ELSE a
        bLower == IF settings.caseInsensitive THEN toLowerCase(b) ELSE b
        aStartsWith == startsWith(aLower, currentWordLower)
        bStartsWith == startsWith(bLower, currentWordLower)
    IN  IF aStartsWith /\ ~bStartsWith THEN -1
        ELSE IF ~aStartsWith /\ bStartsWith THEN 1
        ELSE IF Len(a) # Len(b) THEN Len(a) - Len(b)
        ELSE localeCompare(a, b)

\* Array.prototype.sort with the later comparator; the sort is stable
RECURSIVE sortSuggestions(_, _, _, _, _)
sortSuggestions(settings, list, sorted, i, currentWordLower) ==
    IF i > Len(list)
    THEN sorted
    ELSE LET x == list[i]
             k == Cardinality({j \in 1..Len(sorted) :
                      compareSuggestions(settings, sorted[j], x, currentWordLower) <= 0})
         IN  sortSuggestions(settings, list,
                 SubSeq(sorted, 1, k) \o <<x>> \o SubSeq(sorted, k + 1, Len(sorted)),
                 i + 1, currentWordLower)

\* Array.prototype.sort with the earlier comparator
RECURSIVE sortSuggestionsFirst(_, _, _, _, _)
sortSuggestionsFirst(settings, list, sorted, i, currentWordLower) ==
    IF i > Len(list)
    THEN sorted
    ELSE LET x == list[i]
             k == Cardinality({j \in 1..Len(sorted) :
                      compareSuggestionsFirst(settings, sorted[j], x, currentWordLower) <= 0})
         IN  sortSuggestionsFirst(settings, list,
                 SubSeq(sorted, 1, k) \o <<x>> \o SubSeq(sorted, k + 1, Len(sorted)),
                 i + 1, currentWordLower)

\* the filter of rankSuggestions: a suggestion that is the typed word is dropped
filterSuggestions(settings, suggestions, currentWordLower) ==
    LET keep(suggestion) ==
            (IF settings.caseInsensitive THEN toLowerCase(suggestion) ELSE suggestion)
                # currentWordLower
    IN  SelectSeq(suggestions, keep)

\* rankSuggestions without its filter
rankSuggestionsNoFilter(settings, suggestions, currentWord) ==
    LET currentWordLower ==
            IF settings.caseInsensitive THEN toLowerCase(currentWord) ELSE currentWord
    IN  sortSuggestions(settings, suggestions, <<>>, 1, currentWordLower)

rankSuggestions(settings, suggestions, currentWord) ==
    LET currentWordLower ==
            IF settings.caseInsensitive THEN toLowerCase(currentWord) ELSE currentWord
    IN  sortSuggestions(settings,
            filterSuggestions(settings, suggestions, currentWordLower),
            <<>>, 1, currentWordLower)

rankSuggestionsFirst(settings, suggestions, currentWord) ==
    LET currentWordLower ==
            IF settings.caseInsensitive THEN toLowerCase(currentWord) ELSE currentWord
    IN  sortSuggestionsFirst(settings,
            filterSuggestions(settings, suggestions, currentWordLower),
            <<>>, 1, currentWordLower)

\* new Set(words): the members of a word list
SetOf(words) == {words[i] : i \in 1..Len(words)}

\* /[\x00-\x1F\x7F-\x9F]/ over the characters this model writes words with
ControlCharacters == {"\t", "\n", "\r", "\f"}

\* /\s/
WhiteSpace == {" ", "\t", "\n", "\r", "\f"}

isValidWordForTrie(settings, word) ==
    LET maxLength == IF isComplexIdentifier(word) THEN 200 ELSE 100
    IN  /\ Len(word) > 0 /\ isString(word)
        /\ Len(word) >= settings.minWordLength
        /\ Len(word) <= maxLength
        \* no control character
        /\ \A i \in 1..Len(word) : word[i] \notin ControlCharacters
        \* not one character repeated
        /\ ~(Len(word) > 2 /\ \A i \in 1..Len(word) : word[i] = word[1])
        \* at least one letter
        /\ \E i \in 1..Len(word) : word[i] \in az \cup AZ
        \* a complex identifier is made of valid characters
        /\ isComplexIdentifier(word) =>
               \A i \in 1..Len(word) :
                   word[i] \in az \cup AZ \cup Digits \cup WhiteSpace
                               \cup {"_", "-", ".", "(", ")", "[", "]"}

\* the loop of buildTrie over the words of the set, in the set's order
RECURSIVE insertValidWords(_, _, _, _)
insertValidWords(settings, t, words, i) ==
    IF i > Len(words)
    THEN t
    ELSE LET word == words[i]
         IN  insertValidWords(settings,
                 IF /\ Len(word) > 0
                    /\ length(word) >= settings.minWordLength
                    /\ isValidWordForTrie(settings, word)
                 THEN insert(t, word)
                 ELSE t,
                 words, i + 1)

\* buildTrie of the earlier declaration: no test for an empty set and no
\* isValidWordForTrie
RECURSIVE insertLongWords(_, _, _, _)
insertLongWords(settings, t, words, i) ==
    IF i > Len(words)
    THEN t
    ELSE LET word == words[i]
         IN  insertLongWords(settings,
                 IF Len(word) > 0 /\ length(word) >= settings.minWordLength
                 THEN insert(t, word)
                 ELSE t,
                 words, i + 1)

buildTrieFirst(e, t, words, time) ==
    [engine |-> [e EXCEPT !.wordCache = SetOf(words), !.lastUpdateTime = time],
     trie |-> insertLongWords(e.settings, NewACT, words, 1)]

\* buildTrie that stops after the first word of the set
buildTrieFirstWordOnly(e, t, words, time) ==
    IF Len(words) = 0
    THEN [engine |-> e, trie |-> t]
    ELSE [engine |-> [e EXCEPT !.wordCache = SetOf(words),
                               !.lastUpdateTime = time],
          trie |-> insertValidWords(e.settings, NewACT, SubSeq(words, 1, 1), 1)]

\* buildTrie: words is the Set in its iteration order, time is Date.now();
\* gives the engine's fields and its trie after the call
buildTrie(e, t, words, time) ==
    IF Len(words) = 0
    THEN [engine |-> e, trie |-> t]
    ELSE [engine |-> [e EXCEPT !.wordCache = SetOf(words),
                               !.lastUpdateTime = time],
          trie |-> insertValidWords(e.settings, NewACT, words, 1)]

\* addCustomWords that starts from a new tree and a new snapshot
addCustomWordsDiscarding(e, t, words, i) ==
    buildTrieFirst(e, t, words, e.lastUpdateTime)

\* the loop of addCustomWords over the array
RECURSIVE addCustomWords(_, _, _, _)
\* addCustomWords without the length test: every non-empty string is inserted
addCustomWordsAnyLength(e, t, words, i) ==
    IF i > Len(words)
    THEN [engine |-> e, trie |-> t]
    ELSE LET word == words[i]
         IN  IF Len(word) > 0 /\ isString(word)
             THEN addCustomWords([e EXCEPT !.wordCache = @ \cup {word}],
                                 insert(t, word), words, i + 1)
             ELSE addCustomWords(e, t, words, i + 1)

addCustomWords(e, t, words, i) ==
    IF i > Len(words)
    THEN [engine |-> e, trie |-> t]
    ELSE LET word == words[i]
         IN  IF /\ Len(word) > 0 /\ isString(word)
                /\ Len(word) >= e.settings.minWordLength
             THEN addCustomWords([e EXCEPT !.wordCache = @ \cup {word}],
                                 insert(t, word), words, i + 1)
             ELSE addCustomWords(e, t, words, i + 1)

\* /[a-zA-Z0-9_\-.]/
WordCharacters == az \cup AZ \cup Digits \cup {"_", "-", "."}

\* the two loops of getCurrentWord that walk from the cursor to the ends of
\* the word; start and end count characters as the code's indices do
RECURSIVE wordStart(_, _)
wordStart(input, start) ==
    IF start > 0 /\ input[start] \in WordCharacters
    THEN wordStart(input, start - 1)
    ELSE start

RECURSIVE wordEnd(_, _)
wordEnd(input, end) ==
    IF end < Len(input) /\ input[end + 1] \in WordCharacters
    THEN wordEnd(input, end + 1)
    ELSE end

\* replace(/^[.,;:!?(){}[\]"'`~]+|[.,;:!?(){}[\]"'`~]+$/g, '') on a word of
\* WordCharacters, where the full stop is the one character it removes
RECURSIVE stripFullStops(_)
stripFullStops(word) ==
    IF Len(word) > 0 /\ word[1] = "." THEN stripFullStops(Tail(word))
    ELSE IF Len(word) > 0 /\ word[Len(word)] = "."
         THEN stripFullStops(SubSeq(word, 1, Len(word) - 1))
         ELSE word

\* getCurrentWord for an input of letters and blanks: on such an input the
\* patterns of getComplexCurrentWord find the letters that end at the cursor
\* or nothing, which is what the two loops find
getCurrentWord(input, cursorPos) ==
    stripFullStops(SubSeq(input, wordStart(input, cursorPos) + 1,
                          wordEnd(input, cursorPos)))

shouldTrigger(settings, input, cursorPos) ==
    IF Len(input) = 0 \/ cursorPos = 0
    THEN FALSE
    ELSE LET charBeforeCursor == input[cursorPos]
             currentWord == getCurrentWord(input, cursorPos)
         IN  \/ charBeforeCursor \in triggerCharacters
             \/ cursorPos >= 2 /\ input[cursorPos - 1] \in triggerCharacters
             \/ charBeforeCursor \in WordCharacters
             \/ /\ Len(currentWord) > 0
                /\ Len(currentWord) >= settings.minWordLength
                /\ isComplexIdentifier(currentWord)
                /\ Len(currentWord) >= 2

\* getSuggestions that returns the whole ranked list
getSuggestionsNoSlice(e, t, input, maxResults) ==
    LET currentWord == getCurrentWord(input, Len(input))
        suggestions ==
            IF e.settings.fuzzyMatching
            THEN search(t, currentWord, maxResults).value
            ELSE autoComplete(t, currentWord)
    IN  IF \/ ~e.isInitialized \/ Len(input) = 0 \/ ~e.settings.enabled
           \/ ~shouldTrigger(e.settings, input, Len(input))
           \/ Len(currentWord) < e.settings.minWordLength
        THEN [value |-> <<>>, engine |-> e]
        ELSE [value |-> rankSuggestions(e.settings, suggestions, currentWord),
              engine |-> e]

\* getSuggestions with cursorPos left to its default, input.length; gives
\* the returned list and the engine's fields after the call
getSuggestions(e, t, input, maxResults) ==
    LET cursorPos == Len(input)
        currentWord == getCurrentWord(input, cursorPos)
        suggestions ==
            IF e.settings.fuzzyMatching
            THEN search(t, currentWord, maxResults).value
            ELSE autoComplete(t, currentWord)
        rankedSuggestions == rankSuggestions(e.settings, suggestions, currentWord)
    IN  IF ~e.isInitialized \/ Len(input) = 0 \/ ~e.settings.enabled
        THEN [value |-> <<>>, engine |-> e]
        ELSE IF ~shouldTrigger(e.settings, input, cursorPos)
        THEN [value |-> <<>>, engine |-> e]
        ELSE IF Len(currentWord) = 0 \/ Len(currentWord) < e.settings.minWordLength
        THEN [value |-> <<>>, engine |-> e]
        ELSE [value |-> slice(rankedSuggestions, maxResults),
              engine |-> [e EXCEPT !.currentSuggestions =
                                       slice(rankedSuggestions, maxResults)]]

getStats(e, t) ==
    [isInitialized |-> e.isInitialized,
     enabled |-> e.settings.enabled,
     totalWords |-> Cardinality(e.wordCache),
     trieSize |-> size(t),
     currentSuggestions |-> Len(e.currentSuggestions),
     settings |-> e.settings,
     triggerCharacters |-> triggerCharacters]

\* reset that leaves the time of the last rebuild in place
resetKeepingTimestamp(e) ==
    [engine |-> [e EXCEPT !.wordCache = {}, !.currentSuggestions = <<>>,
                          !.isInitialized = FALSE],
     trie |-> NewACT]

reset(e) ==
    [engine |-> [e EXCEPT !.wordCache = {}, !.currentSuggestions = <<>>,
                          !.isInitialized = FALSE, !.lastUpdateTime = 0],
     trie |-> NewACT]

\* the document and the asynchronous calls of the content script:
\* suggestionBoxes counts the elements of class
\* github-pr-autocomplete-suggestions in document.body, initializing the
\* init() calls that wait for engine.initialize() and were started after the
\* last reset(), superseded those started before it, refreshing the refresh()
\* calls that wait for their extraction, extracting the timeouts of the
\* change monitor's observers that have not called back yet
NewPage ==
    [suggestionBoxes |-> 0, initializing |-> 0, superseded |-> 0,
     refreshing |-> 0, extracting |-> 0]

\* history: a reset() makes every initialize() in flight an older one
supersede(p) ==
    [p EXCEPT !.superseded = @ + p.initializing, !.initializing = 0]

\* no observer yet; rebuiltAt is the time of the last rebuild the callback
\* of the change monitor started, 0 before the first
NewMonitor == [observers |-> 0, rebuiltAt |-> 0]

(***************************************************************************)
(* The state machine: one ACT, and its operations called in any order      *)
(***************************************************************************)
Returned(op, query, maxDistance, maxResults, result, lookups) ==
    [op |-> op, query |-> query, maxDistance |-> maxDistance,
     maxResults |-> maxResults, result |-> result, lookups |-> lookups]

\* no call is in progress: the caller has taken the last result
Idle == ret.op = "idle"

Init ==
    /\ root = NewACT
    /\ inserted = {}
    /\ ret = Returned("idle", <<>>, 0, 0, <<>>, 0)
    /\ engine = NewEngine
    /\ now = StartTime
    /\ monitor = NewMonitor
    /\ page = NewPage

Insert(word) ==
    /\ Idle
    /\ word = <<>> \/ word \in inserted \/ Cardinality(inserted) < MaxInserts
    /\ root' = insert(root, word)
    /\ inserted' = IF word = <<>> THEN inserted ELSE inserted \cup {word}
    \* for insert, result records whether the word had been inserted before
    /\ ret' = Returned("insert", word, 0, 0, word \in inserted, 0)
    /\ UNCHANGED <<engine, now, monitor, page>>

AutoComplete(prefix) ==
    /\ Idle
    /\ ret' = Returned("autoComplete", prefix, 0, 0, autoComplete(root, prefix), 1)
    /\ UNCHANGED <<root, inserted, engine, now, monitor, page>>

FuzzySearch(query, maxDistance, maxResults) ==
    /\ Idle
    /\ ret' = Returned("fuzzySearch", query, maxDistance, maxResults,
                       fuzzySearch(root, query, maxDistance, maxResults), 1)
    /\ UNCHANGED <<root, inserted, engine, now, monitor, page>>

Search(query, maxResults) ==
    /\ Idle
    /\ LET r == search(root, query, maxResults)
       IN  ret' = Returned("search", query, SearchDistance, maxResults,
                           r.value, r.lookups)
    /\ UNCHANGED <<root, inserted, engine, now, monitor, page>>

Size ==
    /\ Idle
    /\ ret' = Returned("size", <<>>, 0, 0, size(root), 1)
    /\ UNCHANGED <<root, inserted, engine, now, monitor, page>>

Contains(word) ==
    /\ Idle
    /\ ret' = Returned("contains", word, 0, 0, contains(root, word), 1)
    /\ UNCHANGED <<root, inserted, engine, now, monitor, page>>

\* the caller takes the result; the next call can start
Return ==
    /\ ~Idle
    /\ ret' = Returned("idle", <<>>, 0, 0, <<>>, 0)
    /\ UNCHANGED <<root, inserted, engine, now, monitor, page>>

Next ==
    \/ \E word \in Words : Insert(word)
    \/ \E prefix \in Words : AutoComplete(prefix)
    \/ \E query \in Words, maxDistance \in 1..MaxDistance,
          maxResults \in 1..MaxResults :
           FuzzySearch(query, maxDistance, maxResults)
    \/ \E query \in Words, maxResults \in 1..MaxResults :
           Search(query, maxResults)
    \/ Size
    \/ \E word \in Words : Contains(word)
    \/ Return

Spec == Init /\ [][Next]_vars

(***************************************************************************)
(* levenshteinDistance alone, on every pair of strings up to MaxLevLen     *)
(***************************************************************************)
Levenshtein(str1, str2) ==
    /\ Idle
    /\ ret' = Returned("levenshteinDistance", <<str1, str2>>, 0, 0,
                       levenshteinDistance(str1, str2), 0)
    /\ UNCHANGED <<root, inserted, engine, now, monitor, page>>

LevNext ==
    \/ \E str1 \in Strings(MaxLevLen), str2 \in Strings(MaxLevLen) :
           Levenshtein(str1, str2)
    \/ Return

LevSpec == Init /\ [][LevNext]_vars

(***************************************************************************)
(* The engine as a state machine: its public methods, the continuation of  *)
(* initialize(), the callback of the change monitor, and the clock         *)
(***************************************************************************)
\* the state a call starts from
Before == [root |-> root, engine |-> engine, monitor |-> monitor, now |-> now]

\* a call of an engine method: its arguments, what it returns, where it began
Called(op, words, input, maxResults, result) ==
    [op |-> op, words |-> words, input |-> input, maxResults |-> maxResults,
     result |-> result, before |-> Before]

\* two of the words of the fallbackWords set of initialize()
fallbackWords == << <<"i", "f">>, <<"f", "o", "r">> >>

\* initialize() from the return of its last await (extractWords) to its end,
\* on an enabled engine: nothing else runs in between
Initialize(words) ==
    /\ Idle
    /\ engine.settings.enabled
    /\ LET built == IF Len(words) = 0
                    THEN buildTrie(engine, root, fallbackWords, now)
                    ELSE buildTrie(engine, root, words, now)
       IN  /\ root' = built.trie
           /\ engine' = [built.engine EXCEPT !.isInitialized = TRUE]
    \* setupChangeMonitoring: one more observer on document.body
    /\ monitor' = [monitor EXCEPT !.observers = @ + 1]
    /\ ret' = Called("initialize", words, <<>>, 0, TRUE)
    /\ UNCHANGED <<inserted, now, page>>

\* buildTrie(words), as refresh() calls it once its extraction has returned
BuildTrie(words) ==
    /\ Idle
    /\ LET built == buildTrie(engine, root, words, now)
       IN  /\ root' = built.trie
           /\ engine' = built.engine
    /\ ret' = Called("buildTrie", words, <<>>, 0, TRUE)
    /\ UNCHANGED <<inserted, now, monitor, page>>

AddCustomWords(words) ==
    /\ Idle
    /\ LET added == addCustomWords(engine, root, words, 1)
       IN  /\ root' = added.trie
           /\ engine' = added.engine
    /\ ret' = Called("addCustomWords", words, <<>>, 0, TRUE)
    /\ UNCHANGED <<inserted, now, monitor, page>>

GetSuggestions(input, maxResults) ==
    /\ Idle
    /\ LET got == getSuggestions(engine, root, input, maxResults)
       IN  /\ engine' = got.engine
           /\ ret' = Called("getSuggestions", <<>>, input, maxResults, got.value)
    /\ UNCHANGED <<root, inserted, now, monitor, page>>

GetStats ==
    /\ Idle
    /\ ret' = Called("getStats", <<>>, <<>>, 0, getStats(engine, root))
    /\ UNCHANGED <<root, inserted, engine, now, monitor, page>>

\* reset() leaves the observers of the change monitor in place, and the
\* initialize() calls that wait for an await go on when their await returns
Reset ==
    /\ Idle
    /\ root' = reset(engine).trie
    /\ engine' = reset(engine).engine
    /\ ret' = Called("reset", <<>>, <<>>, 0, TRUE)
    /\ page' = supersede(page)
    /\ UNCHANGED <<inserted, now, monitor>>

\* the callback setupChangeMonitoring hands to monitorForChanges, called with
\* the words of a new extraction; result tells whether it called buildTrie
ChangeCallback(newWords) ==
    /\ Idle
    /\ monitor.observers >= 1
    /\ LET rebuild == now - engine.lastUpdateTime > engine.updateThreshold
           built == IF rebuild
                    THEN buildTrie(engine, root, newWords, now)
                    ELSE [engine |-> engine, trie |-> root]
       IN  /\ root' = built.trie
           /\ engine' = built.engine
           /\ monitor' = [monitor EXCEPT !.rebuiltAt = IF rebuild THEN now ELSE @]
           /\ ret' = Called("changeCallback", newWords, <<>>, 0, rebuild)
    /\ UNCHANGED <<inserted, now, page>>

\* Date.now() moves on by d milliseconds
Tick(d) ==
    /\ Idle
    /\ now' = now + d
    /\ UNCHANGED <<root, inserted, ret, engine, monitor, page>>

(***************************************************************************)
(* Completion requests: an engine is initialized from a word list and then *)
(* asked for suggestions                                                   *)
(***************************************************************************)
\* an undersized word, two lower-case words and a word with a capital
EngineVocabulary ==
    {<<"a">>, <<"a", "b">>, <<"a", "b", "b">>, <<"A", "b", "a">>}

\* the Sets and arrays of up to MaxWords words of a vocabulary, in their order
WordLists(vocabulary) ==
    {words \in UNION {[1..n -> vocabulary] : n \in 0..MaxWords} :
        \A i, j \in 1..Len(words) : words[i] = words[j] => i = j}

\* what the user has typed: letters and blanks, the cursor behind them
EngineInputs ==
    {<<>>, <<"a">>, <<"a", "b">>, <<"A", "b">>, <<"b", " ", "a", "b">>,
     <<"a", "b", " ">>}

SuggestInit ==
    /\ root = NewACT
    /\ inserted = {}
    /\ ret = Returned("idle", <<>>, 0, 0, <<>>, 0)
    \* loadSettings may have switched fuzzy matching off
    /\ \E fuzzyMatching \in BOOLEAN :
           engine = [NewEngine EXCEPT !.settings.fuzzyMatching = fuzzyMatching]
    /\ now = StartTime
    /\ monitor = NewMonitor
    /\ page = NewPage

\* the UI calls initialize() on a new engine (content.js:36)
SuggestNext ==
    \/ /\ Idle /\ ~engine.isInitialized
       /\ \E words \in WordLists(EngineVocabulary) : Initialize(words)
    \/ /\ Idle
       /\ \E input \in EngineInputs, maxResults \in 1..MaxResults :
              GetSuggestions(input, maxResults)
    \/ /\ Idle
       /\ \E query \in EngineVocabulary, maxResults \in 1..MaxResults :
              Search(query, maxResults)
    \/ Return

SuggestSpec == SuggestInit /\ [][SuggestNext]_vars

(***************************************************************************)
(* Rebuilds: buildTrie and addCustomWords on the word lists of a smaller   *)
(* vocabulary, while the clock moves                                       *)
(***************************************************************************)
\* what an extraction of the page hands over: no word, or one
ExtractedWordLists == {<<>>, << <<"a", "b">> >>}

\* an undersized word, a lower-case word and a word with a capital
RebuildVocabulary == {<<"a">>, <<"a", "b">>, <<"A", "b", "a">>}

RebuildNext ==
    \/ /\ Idle /\ ~engine.isInitialized
       /\ \E words \in ExtractedWordLists : Initialize(words)
    \/ /\ Idle
       /\ \E words \in WordLists(RebuildVocabulary) : BuildTrie(words)
    \/ /\ Idle
       /\ \E words \in WordLists(RebuildVocabulary) :
              /\ Cardinality(addCustomWords(engine, root, words, 1).engine.wordCache)
                     <= MaxWords
              /\ AddCustomWords(words)
    \/ GetStats
    \/ now < StartTime + MaxTicks /\ Tick(1)
    \/ Return

RebuildSpec == Init /\ [][RebuildNext]_vars

(***************************************************************************)
(* rankSuggestions alone, on every list of suggestions that has up to      *)
(* MaxRankChars characters in all                                          *)
(***************************************************************************)
\* a letter in both cases and a character of complex identifiers
RankSigma == {"a", "A", "_"}

RankWords == UNION {[1..n -> RankSigma] : n \in 1..MaxRankChars}

TypedWords == UNION {[1..n -> RankSigma] : n \in 1..MaxTypedLen}

\* the lists of words whose lengths add up to n at most
RECURSIVE ListsOfChars(_)
ListsOfChars(n) ==
    {<<>>} \cup UNION {{<<w>> \o l : l \in ListsOfChars(n - Len(w))} :
                          w \in {v \in RankWords : Len(v) <= n}}

SuggestionLists == ListsOfChars(MaxRankChars)

RankInit ==
    /\ root = NewACT
    /\ inserted = {}
    /\ ret = Returned("idle", <<>>, 0, 0, <<>>, 0)
    /\ \E caseInsensitive \in BOOLEAN :
           engine = [NewEngine EXCEPT !.settings.caseInsensitive = caseInsensitive]
    /\ now = StartTime
    /\ monitor = NewMonitor
    /\ page = NewPage

\* result is the list of the later declaration, first that of the earlier
Rank(suggestions, currentWord) ==
    /\ Idle
    /\ ret' = [op |-> "rankSuggestions", suggestions |-> suggestions,
               currentWord |-> currentWord,
               result |-> rankSuggestions(engine.settings, suggestions, currentWord),
               first |-> rankSuggestionsFirst(engine.settings, suggestions,
                                              currentWord)]
    /\ UNCHANGED <<root, inserted, engine, now, monitor, page>>

RankNext ==
    \/ /\ Idle
       /\ \E suggestions \in SuggestionLists, currentWord \in TypedWords :
              Rank(suggestions, currentWord)
    \/ Return

RankSpec == RankInit /\ [][RankNext]_vars

(***************************************************************************)
(* The throttle of the change monitor: callbacks, resets and the clock     *)
(***************************************************************************)
\* the clock moves by a millisecond or by one less than the threshold
TickSteps == {1, updateThreshold - 1}

\* the number of steps of TickSteps that lead from StartTime to time
TicksTo(time) ==
    ((time - StartTime) \div (updateThreshold - 1))
        + ((time - StartTime) % (updateThreshold - 1))

ThrottleNext ==
    \/ /\ Idle /\ monitor.observers < MaxObservers
       /\ \E words \in ExtractedWordLists : Initialize(words)
    \/ /\ Idle
       /\ \E newWords \in ExtractedWordLists : ChangeCallback(newWords)
    \/ Reset
    \/ \E d \in TickSteps : TicksTo(now + d) <= MaxThrottleTicks /\ Tick(d)
    \/ Return

ThrottleSpec == Init /\ [][ThrottleNext]_vars

(***************************************************************************)
(* The life of one engine: it is initialized, gets custom words, answers   *)
(* completion requests and is reset                                        *)
(***************************************************************************)
\* an undersized word and a word that completes what LifecycleInputs type
CustomVocabulary == {<<"a">>, <<"a", "b", "b">>}

\* what the user has typed when the input handler asks for suggestions
LifecycleInputs == {<<"a", "b">>, <<"A", "b">>}

\* the input handler calls getSuggestions(value, this.engine.maxSuggestions,
\* cursorPos) (content.js:207)
LifecycleNext ==
    \/ /\ Idle /\ ~engine.isInitialized /\ monitor.observers < MaxObservers
       /\ \E words \in ExtractedWordLists : Initialize(words)
    \/ /\ Idle
       /\ \E words \in WordLists(CustomVocabulary) : AddCustomWords(words)
    \/ /\ Idle
       /\ \E input \in LifecycleInputs :
              GetSuggestions(input, engine.maxSuggestions)
    \/ Reset
    \/ Return

LifecycleSpec == Init /\ [][LifecycleNext]_vars

(***************************************************************************)
(* Words that do not qualify: buildTrie, addCustomWords and reset on word  *)
(* lists that hold an array, the empty string and undersized words         *)
(***************************************************************************)
\* an array of three, the empty string, an undersized word, a word that is
\* undersized when minWordLength is 3, and two longer words
MinLengthVocabulary ==
    {NotAString, <<>>, <<"a">>, <<"a", "b">>, <<"A", "b", "a">>,
     <<"a", "b", "b">>}

\* the minWordLength that loadSettings may have set
MinWordLengths == {2, 3}

MinLengthInit ==
    /\ root = NewACT
    /\ inserted = {}
    /\ ret = Returned("idle", <<>>, 0, 0, <<>>, 0)
    /\ \E minWordLength \in MinWordLengths :
           engine = [NewEngine EXCEPT !.settings.minWordLength = minWordLength]
    /\ now = StartTime
    /\ monitor = NewMonitor
    /\ page = NewPage

MinLengthNext ==
    \/ /\ Idle
       /\ \E words \in WordLists(MinLengthVocabulary) : BuildTrie(words)
    \/ /\ Idle
       /\ \E words \in WordLists(MinLengthVocabulary) :
              /\ Cardinality(addCustomWords(engine, root, words, 1).engine.wordCache)
                     <= MaxWords
              /\ AddCustomWords(words)
    \/ Reset
    \/ Return

MinLengthSpec == MinLengthInit /\ [][MinLengthNext]_vars

(***************************************************************************)
(* Degenerate words: buildTrie and addCustomWords on word lists that hold  *)
(* repeated characters and control characters                              *)
(***************************************************************************)
\* a plain word, a character repeated three times in one case and in two,
\* a word with a tab and a word with a form feed
DegenerateVocabulary ==
    {<<"a", "b">>, <<"a", "a", "a">>, <<"A", "a", "a">>, <<"a", "\t">>,
     <<"a", "b", "\f">>}

FilterNext ==
    \/ /\ Idle
       /\ \E words \in WordLists(DegenerateVocabulary) : BuildTrie(words)
    \/ /\ Idle
       /\ \E words \in WordLists(DegenerateVocabulary) :
              /\ Cardinality(addCustomWords(engine, root, words, 1).engine.wordCache)
                     <= MaxWords
              /\ AddCustomWords(words)
    \/ Return

FilterSpec == Init /\ [][FilterNext]_vars

(***************************************************************************)
(* The content script: init() calls that wait for engine.initialize(),     *)
(* navigations, refresh() calls, content changes and completion requests   *)
(***************************************************************************)
\* what an extraction of the page hands over: no word, or one of two sets
\* of which neither is a part of the other
PageWordLists ==
    {<<>>, << <<"a", "b">>, <<"a", "b", "b">> >>,
     << <<"a", "b">>, <<"b", "a">> >>}

\* createSuggestionBox(): one more element in document.body
CreateSuggestionBox ==
    /\ Idle
    /\ page' = [page EXCEPT !.suggestionBoxes = @ + 1]
    /\ ret' = Called("createSuggestionBox", <<>>, <<>>, 0, TRUE)
    /\ UNCHANGED <<root, inserted, engine, now, monitor>>

\* the last await of an engine.initialize() that init() waits for returns
\* with the extracted words: initialize() goes on to its end, and init() to
\* its own with createSuggestionBox() and setupEventListeners().  older
\* tells whether the init() was called before the last reset(); it is the
\* result the call is recorded with.
InitResumes(words, older) ==
    /\ Idle
    /\ engine.settings.enabled
    /\ IF older THEN page.superseded > 0 ELSE page.initializing > 0
    /\ LET built == IF Len(words) = 0
                    THEN buildTrie(engine, root, fallbackWords, now)
                    ELSE buildTrie(engine, root, words, now)
       IN  /\ root' = built.trie
           /\ engine' = [built.engine EXCEPT !.isInitialized = TRUE]
    /\ monitor' = [monitor EXCEPT !.observers = @ + 1]
    /\ page' = [page EXCEPT !.suggestionBoxes = @ + 1,
                            !.superseded = IF older THEN @ - 1 ELSE @,
                            !.initializing = IF older THEN @ ELSE @ - 1]
    /\ ret' = Called("init", words, <<>>, 0, older)
    /\ UNCHANGED <<inserted, now>>

\* the timeout of the navigation observer: engine.reset() and init(), which
\* calls engine.initialize() and waits for it
Navigate ==
    /\ Idle
    /\ root' = reset(engine).trie
    /\ engine' = reset(engine).engine
    /\ page' = [supersede(page) EXCEPT !.initializing = 1]
    /\ ret' = Called("navigate", <<>>, <<>>, 0, TRUE)
    /\ UNCHANGED <<inserted, now, monitor>>

\* refresh() up to its await
Refresh ==
    /\ Idle
    /\ page' = [page EXCEPT !.refreshing = @ + 1]
    /\ ret' = Called("refresh", <<>>, <<>>, 0, TRUE)
    /\ UNCHANGED <<root, inserted, engine, now, monitor>>

\* the extraction a refresh() waits for returns: buildTrie(words)
RefreshResumes(words) ==
    /\ Idle
    /\ page.refreshing > 0
    /\ LET built == buildTrie(engine, root, words, now)
       IN  /\ root' = built.trie
           /\ engine' = built.engine
    /\ page' = [page EXCEPT !.refreshing = @ - 1]
    /\ ret' = Called("buildTrie", words, <<>>, 0, TRUE)
    /\ UNCHANGED <<inserted, now, monitor>>

\* the content of the files bucket changes: every observer of
\* monitorForChanges sets a timeout that extracts the words and calls back
ContentChange ==
    /\ Idle
    /\ monitor.observers >= 1
    /\ page' = [page EXCEPT !.extracting = @ + monitor.observers]
    /\ ret' = Called("contentChange", <<>>, <<>>, 0, TRUE)
    /\ UNCHANGED <<root, inserted, engine, now, monitor>>

\* the extraction of one of these timeouts returns, and the callback of
\* setupChangeMonitoring runs with its words; result tells whether it
\* called buildTrie
ExtractionReturns(newWords) ==
    /\ Idle
    /\ page.extracting > 0
    /\ LET rebuild == now - engine.lastUpdateTime > engine.updateThreshold
           built == IF rebuild
                    THEN buildTrie(engine, root, newWords, now)
                    ELSE [engine |-> engine, trie |-> root]
       IN  /\ root' = built.trie
           /\ engine' = built.engine
           /\ monitor' = [monitor EXCEPT !.rebuiltAt = IF rebuild THEN now ELSE @]
           /\ ret' = Called("changeCallback", newWords, <<>>, 0, rebuild)
    /\ page' = [page EXCEPT !.extracting = @ - 1]
    /\ UNCHANGED <<inserted, now>>

\* initializeAutoComplete() has run: the AutoCompleteUI is constructed and
\* its init() waits for engine.initialize()
PageInit ==
    /\ root = NewACT
    /\ inserted = {}
    /\ ret = Returned("idle", <<>>, 0, 0, <<>>, 0)
    /\ engine = NewEngine
    /\ now = StartTime
    /\ monitor = NewMonitor
    /\ page = [NewPage EXCEPT !.initializing = 1]

PageNext ==
    \/ /\ Idle
       /\ \E words \in PageWordLists, older \in BOOLEAN :
              InitResumes(words, older)
    \/ /\ monitor.observers + page.initializing + page.superseded < MaxObservers
       /\ Navigate
    \/ page.suggestionBoxes < MaxBoxes /\ CreateSuggestionBox
    \/ page.refreshing = 0 /\ Refresh
    \/ /\ Idle
       /\ \E words \in PageWordLists : RefreshResumes(words)
    \/ page.extracting = 0 /\ ContentChange
    \/ /\ Idle
       /\ \E newWords \in PageWordLists : ExtractionReturns(newWords)
    \/ /\ Idle
       /\ \E input \in LifecycleInputs :
              GetSuggestions(input, engine.maxSuggestions)
    \/ Return

PageSpec == PageInit /\ [][PageNext]_vars

(***************************************************************************)
(* fuzzySearch alone, on the trees of the word lists of a vocabulary       *)
(***************************************************************************)
\* words at several distances from the queries, two of them of one length
FuzzyVocabulary ==
    {<<"a">>, <<"b">>, <<"a", "b">>, <<"A", "b">>, <<"a", "b", "b">>}

FuzzyQueries == {<<"a">>, <<"a", "b">>, <<"A", "b">>, <<"b", "a">>}

\* the loop of insert calls that fills a new ACT with the words of a list
RECURSIVE insertAll(_, _, _)
insertAll(t, words, i) ==
    IF i > Len(words) THEN t ELSE insertAll(insert(t, words[i]), words, i + 1)

\* an ACT that the words of a list have been inserted into
FuzzyInit ==
    /\ \E words \in WordLists(FuzzyVocabulary) :
           /\ root = insertAll(NewACT, words, 1)
           /\ inserted = SetOf(words)
    /\ ret = Returned("idle", <<>>, 0, 0, <<>>, 0)
    /\ engine = NewEngine
    /\ now = StartTime
    /\ monitor = NewMonitor
    /\ page = NewPage

FuzzyNext ==
    \/ /\ Idle
       /\ \E query \in FuzzyQueries, maxDistance \in 1..SearchDistance,
             maxResults \in 1..MaxFuzzyResults :
              FuzzySearch(query, maxDistance, maxResults)
    \/ Return

FuzzySpec == FuzzyInit /\ [][FuzzyNext]_vars

(***************************************************************************)
(* insert alone, called with up to MaxShapeInserts distinct words          *)
(***************************************************************************)
\* the array, the empty string, and words of which one begins another
ShapeWords ==
    {NotAString, <<>>, <<"a">>, <<"a", "b">>, <<"A", "b">>, <<"b">>}

\* insert, while fewer than MaxShapeInserts words are in the tree
InsertWord(word) ==
    /\ Idle
    /\ \/ word \in inserted \/ ~isString(word) \/ word = <<>>
       \/ Cardinality(inserted) < MaxShapeInserts
    /\ root' = insert(root, word)
    /\ inserted' = IF word = <<>> \/ ~isString(word)
                   THEN inserted
                   ELSE inserted \cup {word}
    /\ ret' = Returned("insert", word, 0, 0, word \in inserted, 0)
    /\ UNCHANGED <<engine, now, monitor, page>>

InsertNext ==
    \/ /\ Idle
       /\ \E word \in ShapeWords : InsertWord(word)
    \/ Return

InsertSpec == Init /\ [][InsertNext]_vars

(***************************************************************************)
(* Vocabulary of the properties                                            *)
(***************************************************************************)
Range(s) == {s[i] : i \in 1..Len(s)}

NoDuplicates(s) == \A i, j \in 1..Len(s) : s[i] = s[j] => i = j

IsPrefix(p, w) == Len(p) <= Len(w) /\ SubSeq(w, 1, Len(p)) = p

IsProperPrefix(p, w) == IsPrefix(p, w) /\ p # w

\* the strings the inserts so far have stored: each word and its lowercased form
StoredStrings == inserted \cup {toLowerCase(w) : w \in inserted}

\* the terminal nodes of the tree
TerminalNodes == {node \in DOMAIN root : root[node].isEndOfWord}

\* the textbook edit distance: insertion, deletion and substitution cost 1
RECURSIVE EditDistance(_, _)
EditDistance(a, b) ==
    IF Len(a) = 0 THEN Len(b)
    ELSE IF Len(b) = 0 THEN Len(a)
    ELSE Min3(EditDistance(Tail(a), b) + 1,
              EditDistance(a, Tail(b)) + 1,
              EditDistance(Tail(a), Tail(b))
                  + (IF Head(a) = Head(b) THEN 0 ELSE 1))

\* the tree after inserting the words of a sequence into a new ACT
RECURSIVE TreeOf(_)
TreeOf(words) ==
    IF words = <<>>
    THEN NewACT
    ELSE insert(TreeOf(SubSeq(words, 1, Len(words) - 1)), words[Len(words)])

kitten == <<"k", "i", "t", "t", "e", "n">>
sitting == <<"s", "i", "t", "t", "i", "n", "g">>
CamelCase == <<"C", "a", "m", "e", "l", "C", "a", "s", "e">>
fun == <<"f", "u", "n">>
function == <<"f", "u", "n", "c", "t", "i", "o", "n">>
functional == function \o <<"a", "l">>
fundamental == <<"f", "u", "n", "d", "a", "m", "e", "n", "t", "a", "l">>

(***************************************************************************)
(* Properties                                                              *)
(***************************************************************************)

\* C1: prefix containment.  autoComplete(P) includes W, exactly as it was
\* inserted, for every inserted word W and every proper prefix P of W taken
\* in W's own casing.
C1_PrefixContainment ==
    ret.op = "autoComplete" =>
        \A w \in inserted :
            IsProperPrefix(ret.query, w) => w \in Range(ret.result)

\* C2: fuzzy completeness.  fuzzySearch(q, maxDistance, maxResults) returns
\* every stored word within maxDistance edits of the lowercased q, whenever
\* there are at most maxResults of them.
C2_FuzzyCompleteness ==
    ret.op = "fuzzySearch" =>
        LET close == {w \in StoredStrings :
                         EditDistance(w, toLowerCase(ret.query)) <= ret.maxDistance}
        IN  Cardinality(close) <= ret.maxResults => close \subseteq Range(ret.result)

\* "sitting" is not among the results of fuzzySearch("kitten", 2)
SittingNotWithinTwo ==
    sitting \notin Range(fuzzySearch(TreeOf(<<sitting>>), kitten, 2, 20))

\* C3: fuzzy soundness.  Every word fuzzySearch returns is a non-empty stored
\* word within maxDistance edits of the lowercased query; a stored word one
\* edit further away (as "sitting" is from "kitten" with maxDistance 2) is
\* not returned.
C3_FuzzySoundness ==
    /\ ret.op = "fuzzySearch" =>
           \A i \in 1..Len(ret.result) :
               /\ ret.result[i] # <<>>
               /\ ret.result[i] \in StoredStrings
               /\ EditDistance(ret.result[i], toLowerCase(ret.query))
                      <= ret.maxDistance
    /\ SittingNotWithinTwo

\* fuzzySearch returned a word while a stored word lies one edit too far
C3_Witness ==
    /\ ret.op = "fuzzySearch"
    /\ Len(ret.result) > 0
    /\ \E w \in StoredStrings :
           EditDistance(w, toLowerCase(ret.query)) = ret.maxDistance + 1

\* the distances the specification lists
LevenshteinExamples ==
    /\ levenshteinDistance(<<>>, <<"a", "b", "c">>) = 3
    /\ levenshteinDistance(<<"a", "b", "c">>, <<"a", "b", "c">>) = 0
    /\ levenshteinDistance(<<"a", "b">>, <<"b", "a">>) = 2
    /\ levenshteinDistance(kitten, sitting) = 3

\* C4: levenshteinDistance(a, b) is the textbook edit distance of a and b,
\* an empty a or b included.
C4_LevenshteinIsEditDistance ==
    /\ ret.op = "levenshteinDistance" =>
           ret.result = EditDistance(ret.query[1], ret.query[2])
    /\ LevenshteinExamples

\* levenshteinDistance("", b) returned 3 for a b of three characters
C4_Witness ==
    /\ ret.op = "levenshteinDistance"
    /\ ret.query[1] = <<>>
    /\ Len(ret.query[2]) = 3
    /\ ret.result = 3

\* C5: idempotent insertion.  Inserting a word that was inserted before
\* leaves size(), contains() and autoComplete() as they were.
C5_IdempotentInsert ==
    [][(ret'.op = "insert" /\ ret'.query \in inserted) =>
           /\ size(root') = size(root)
           /\ \A w \in Words :
                  /\ contains(root', w) = contains(root, w)
                  /\ autoComplete(root', w) = autoComplete(root, w)]_vars

\* a mixed-case word has been inserted again
C5_Witness ==
    /\ ret.op = "insert"
    /\ ret.result = TRUE
    /\ ret.query # toLowerCase(ret.query)

\* C6: size() is the number of terminal nodes, which is the number of
\* distinct strings among the inserted words and their lowercased forms.
C6_SizeCountsStoredStrings ==
    ret.op = "size" =>
        /\ ret.result = Cardinality(TerminalNodes)
        /\ ret.result = Cardinality(StoredStrings)

\* size() counted a mixed-case word and its lowercased form
C6_Witness ==
    /\ ret.op = "size"
    /\ ret.result >= 2
    /\ \E w \in inserted : w # toLowerCase(w)

CamelCaseExample ==
    /\ Len(autoComplete(TreeOf(<<CamelCase>>), SubSeq(CamelCase, 1, 5))) > 0
    /\ Len(autoComplete(TreeOf(<<CamelCase>>),
                        toLowerCase(SubSeq(CamelCase, 1, 5)))) > 0

\* C8: case duality.  After a mixed-case word W is inserted, autoComplete
\* returns a non-empty result for a prefix of W in W's casing and for the
\* same prefix lowercased.
C8_CaseDuality ==
    /\ ret.op = "autoComplete" =>
           \A w \in inserted :
               w # toLowerCase(w) =>
                   \A k \in 1..Len(w) :
                       (\/ ret.query = SubSeq(w, 1, k)
                        \/ ret.query = toLowerCase(SubSeq(w, 1, k)))
                           => Len(ret.result) > 0
    /\ CamelCaseExample

\* autoComplete answered a proper prefix, with an upper-case letter, of an
\* inserted word
C8_Witness ==
    /\ ret.op = "autoComplete"
    /\ ret.query # toLowerCase(ret.query)
    /\ \E w \in inserted : IsProperPrefix(ret.query, w)
    /\ Len(ret.result) > 0

\* C9: search("", n) returns the empty sequence and makes no lookup.
C9_EmptyQuery ==
    (ret.op = "search" /\ ret.query = <<>>) =>
        /\ ret.result = <<>>
        /\ ret.lookups = 0

\* search("") was called on a tree that holds words
C9_Witness ==
    /\ ret.op = "search"
    /\ ret.query = <<>>
    /\ TerminalNodes # {}

\* the first n of: the exact matches, then the fuzzy matches that are none
MergedMatches(t, q, n) ==
    LET exact == autoComplete(t, q)
        fuzzy == fuzzySearch(t, q, 2, 2 * n)
        all   == exact \o SelectSeq(fuzzy, LAMBDA w : w \notin Range(exact))
    IN  SubSeq(all, 1, IF n < Len(all) THEN n ELSE Len(all))

\* search("fun", 10) over function, functional and fundamental
FunExample ==
    Range(search(TreeOf(<<function, functional, fundamental>>), fun, 10).value)
        = {function, functional, fundamental}

\* C10: for a non-empty q, search(q, n) is the first n elements of
\* autoComplete(q) followed by the elements of fuzzySearch(q, 2, 2n) that
\* are not in autoComplete(q): exact matches come first, no word twice, and
\* every exact match is returned when there are at most n.
C10_SearchMerges ==
    /\ (ret.op = "search" /\ Len(ret.query) > 0) =>
           LET exact == Range(autoComplete(root, ret.query))
           IN  /\ ret.result = MergedMatches(root, ret.query, ret.maxResults)
               /\ NoDuplicates(ret.result)
               /\ \A i, j \in 1..Len(ret.result) :
                      (ret.result[i] \in exact /\ ret.result[j] \notin exact)
                          => i < j
               /\ Cardinality(exact) <= ret.maxResults
                      => exact \subseteq Range(ret.result)
    /\ FunExample

\* search returned an exact match followed by a fuzzy-only match
C10_Witness ==
    /\ ret.op = "search"
    /\ Len(ret.query) > 0
    /\ \E i, j \in 1..Len(ret.result) :
           /\ ret.result[i] \in Range(autoComplete(root, ret.query))
           /\ ret.result[j] \notin Range(autoComplete(root, ret.query))

(***************************************************************************)
(* Vocabulary of the engine's properties                                   *)
(***************************************************************************)
\* the strings a tree stores
StoredIn(t) == {node \in DOMAIN t : t[node].isEndOfWord}

\* how often x occurs in the list s
Count(s, x) == Cardinality({i \in 1..Len(s) : s[i] = x})

\* the typed word of a rankSuggestions call, as the settings compare it
TypedAsCompared ==
    IF engine.settings.caseInsensitive
    THEN toLowerCase(ret.currentWord)
    ELSE ret.currentWord

\* w is the typed word: without regard to case when caseInsensitive is on
EqualsTyped(w) ==
    (IF engine.settings.caseInsensitive THEN toLowerCase(w) ELSE w)
        = TypedAsCompared

\* w has the typed word as a prefix, case-appropriately
MatchesTyped(w) ==
    IsPrefix(TypedAsCompared,
             IF engine.settings.caseInsensitive THEN toLowerCase(w) ELSE w)

\* the prefix-match type of w: it begins with the typed word as typed, or
\* only without regard to case, or not at all
PrefixMatchType(w) ==
    IF IsPrefix(ret.currentWord, w) THEN "exact"
    ELSE IF MatchesTyped(w) THEN "insensitive"
    ELSE "none"

\* a word of a rebuild that buildTrie inserts
Qualifies(word) ==
    /\ Len(word) >= engine.settings.minWordLength
    /\ isValidWordForTrie(engine.settings, word)

\* the word getSuggestions looks up for the input of the call in progress
TypedWord == getCurrentWord(ret.input, Len(ret.input))

(***************************************************************************)
(* C11                                                                     *)
(***************************************************************************)
\* C11: search(q, maxResults) and getSuggestions(input, maxResults) never
\* return more than maxResults entries, with fuzzyMatching on or off and
\* whatever the tree holds
C11_MaxResultsCaps ==
    ret.op \in {"search", "getSuggestions"} => Len(ret.result) <= ret.maxResults

\* getSuggestions, fuzzy matching off, cut the ranked list down to maxResults
C11_Witness ==
    /\ ret.op = "getSuggestions"
    /\ ~engine.settings.fuzzyMatching
    /\ Len(ret.result) = ret.maxResults
    /\ Len(rankSuggestions(engine.settings, autoComplete(root, TypedWord),
                           TypedWord)) > ret.maxResults

(***************************************************************************)
(* C12                                                                     *)
(***************************************************************************)
\* C12: with caseInsensitive on, in the output of rankSuggestions every
\* suggestion that begins with currentWord in its typed casing precedes
\* every suggestion that has it as a prefix only without regard to case
C12_ExactCasingFirst ==
    ret.op = "rankSuggestions" /\ engine.settings.caseInsensitive =>
        \A out \in {ret.result, ret.first} :
            \A i, j \in 1..Len(out) :
                /\ PrefixMatchType(out[i]) = "exact"
                /\ PrefixMatchType(out[j]) = "insensitive"
                => i < j

(***************************************************************************)
(* C13                                                                     *)
(***************************************************************************)
\* C13: in the output of rankSuggestions, of two suggestions of the same
\* prefix-match type the shorter precedes the longer, and two of equal
\* length are in the order of localeCompare, for every list of suggestions
C13_ShorterFirst ==
    ret.op = "rankSuggestions" =>
        \A i, j \in 1..Len(ret.result) :
            i < j /\ PrefixMatchType(ret.result[i]) = PrefixMatchType(ret.result[j])
            => /\ Len(ret.result[i]) <= Len(ret.result[j])
               /\ Len(ret.result[i]) = Len(ret.result[j])
                  => localeCompare(ret.result[i], ret.result[j]) <= 0

(***************************************************************************)
(* C14                                                                     *)
(***************************************************************************)
\* C14: in the output of rankSuggestions every suggestion that has
\* currentWord as a case-appropriate prefix precedes every suggestion that
\* has not, whatever their lengths and shapes
C14_PrefixMatchesFirst ==
    ret.op = "rankSuggestions" =>
        \A out \in {ret.result, ret.first} :
            \A i, j \in 1..Len(out) :
                MatchesTyped(out[i]) /\ ~MatchesTyped(out[j]) => i < j

\* a longer prefix match was ranked before a shorter complex identifier that
\* is no prefix match and stood before it in the input
C14_Witness ==
    /\ ret.op = "rankSuggestions"
    /\ Len(ret.result) = 2
    /\ MatchesTyped(ret.result[1])
    /\ ~MatchesTyped(ret.result[2])
    /\ isComplexIdentifier(ret.result[2])
    /\ Len(ret.result[2]) < Len(ret.result[1])
    /\ ret.suggestions[1] = ret.result[2]

(***************************************************************************)
(* C15                                                                     *)
(***************************************************************************)
\* C15: the output of rankSuggestions holds no suggestion equal to
\* currentWord (without regard to case when caseInsensitive is on, literally
\* when it is off) and holds every other suggestion as often as the input
C15_FilterKeepsTheRest ==
    ret.op = "rankSuggestions" =>
        /\ \A i \in 1..Len(ret.result) : ~EqualsTyped(ret.result[i])
        /\ \A w \in Range(ret.suggestions) \cup Range(ret.result) :
               ~EqualsTyped(w) => Count(ret.result, w) = Count(ret.suggestions, w)

\* a suggestion that is the typed word in another casing was dropped and
\* another suggestion was kept
C15_Witness ==
    /\ ret.op = "rankSuggestions"
    /\ engine.settings.caseInsensitive
    /\ \E i \in 1..Len(ret.suggestions) :
           ret.suggestions[i] # ret.currentWord /\ EqualsTyped(ret.suggestions[i])
    /\ Len(ret.result) >= 1

(***************************************************************************)
(* C16                                                                     *)
(***************************************************************************)
\* C16: after a buildTrie(B) that follows earlier content, the tree holds
\* exactly the qualifying words of B and their lowercased forms: contains is
\* true for every qualifying word of B and false for every earlier word
\* that is neither a word of B nor the lowercased form of one
C16_RebuildDiscards ==
    ret.op = "buildTrie" =>
        LET B == SetOf(ret.words)
            qualifying == {w \in B : Qualifies(w)}
        IN  /\ StoredIn(root) = qualifying \cup {toLowerCase(w) : w \in qualifying}
            /\ \A w \in qualifying : contains(root, w)
            /\ \A w \in ret.before.engine.wordCache :
                   w \notin B \cup {toLowerCase(b) : b \in B}
                   => ~contains(root, w)

(***************************************************************************)
(* C17                                                                     *)
(***************************************************************************)
\* C17: after buildTrie(empty set), whatever the tree held before,
\* trie.size() is 0, the snapshot is empty and the timestamp is updated
C17_EmptyRebuild ==
    ret.op = "buildTrie" /\ Len(ret.words) = 0 =>
        /\ size(root) = 0
        /\ engine.wordCache = {}
        /\ engine.lastUpdateTime = now

(***************************************************************************)
(* C18                                                                     *)
(***************************************************************************)
\* C18: after every buildTrie(S) the snapshot, which getStats reports as
\* totalWords, is exactly S, filtered words included, and lastUpdateTime is
\* the time of that rebuild
C18_SnapshotIsInput ==
    ret.op = "buildTrie" =>
        /\ engine.wordCache = SetOf(ret.words)
        /\ getStats(engine, root).totalWords = Cardinality(SetOf(ret.words))
        /\ engine.lastUpdateTime = ret.before.now

(***************************************************************************)
(* C19                                                                     *)
(***************************************************************************)
\* C19: addCustomWords(words) keeps every stored word and every word of the
\* snapshot, adds each qualifying word of the argument to the tree and to
\* the snapshot and no other word to either, and leaves lastUpdateTime and
\* isInitialized as they were
C19_AddKeepsPriorContent ==
    ret.op = "addCustomWords" =>
        LET qualifying == {w \in SetOf(ret.words) :
                              Len(w) >= engine.settings.minWordLength}
        IN  /\ StoredIn(ret.before.root) \subseteq StoredIn(root)
            /\ ret.before.engine.wordCache \subseteq engine.wordCache
            /\ \A w \in qualifying : w \in StoredIn(root) /\ w \in engine.wordCache
            /\ StoredIn(root) = StoredIn(ret.before.root) \cup qualifying
                                    \cup {toLowerCase(w) : w \in qualifying}
            /\ engine.wordCache = ret.before.engine.wordCache \cup qualifying
            /\ engine.lastUpdateTime = ret.before.engine.lastUpdateTime
            /\ engine.isInitialized = ret.before.engine.isInitialized

\* a qualifying new word and an undersized word were added to an initialized
\* engine whose tree was built a while ago
C19_Witness ==
    /\ ret.op = "addCustomWords"
    /\ StoredIn(ret.before.root) # {}
    /\ \E w \in SetOf(ret.words) :
           /\ Len(w) >= engine.settings.minWordLength
           /\ w \notin StoredIn(ret.before.root)
    /\ \E w \in SetOf(ret.words) : Len(w) < engine.settings.minWordLength
    /\ engine.isInitialized
    /\ engine.lastUpdateTime # 0
    /\ engine.lastUpdateTime < now

(***************************************************************************)
(* C20                                                                     *)
(***************************************************************************)
\* C20: the callback of the change monitor rebuilds exactly when
\* now - lastUpdateTime > updateThreshold, so two consecutive rebuilds it
\* carries out are more than updateThreshold apart
C20_ThrottleGate ==
    ret.op = "changeCallback" =>
        /\ ret.result <=>
               ret.before.now - ret.before.engine.lastUpdateTime > updateThreshold
        /\ ret.result /\ ret.before.monitor.rebuiltAt # 0
           => now - ret.before.monitor.rebuiltAt > updateThreshold

(***************************************************************************)
(* C21                                                                     *)
(***************************************************************************)
\* C21: after reset(), whatever the engine held before, the tree has size 0
\* and contains no word, the snapshot and currentSuggestions are empty,
\* isInitialized is false and lastUpdateTime is 0.
C21_ResetDropsAll ==
    ret.op = "reset" =>
        /\ size(root) = 0
        /\ \A w \in Words \cup StoredIn(ret.before.root)
                       \cup ret.before.engine.wordCache : ~contains(root, w)
        /\ engine.wordCache = {}
        /\ engine.currentSuggestions = <<>>
        /\ ~engine.isInitialized
        /\ engine.lastUpdateTime = 0

\* a reset of an initialized engine that held words, suggestions and the time
\* of a rebuild
C21_Witness ==
    /\ ret.op = "reset"
    /\ size(ret.before.root) > 0
    /\ ret.before.engine.wordCache # {}
    /\ ret.before.engine.currentSuggestions # <<>>
    /\ ret.before.engine.isInitialized
    /\ ret.before.engine.lastUpdateTime > 0
    /\ size(root) = 0

(***************************************************************************)
(* C24                                                                     *)
(***************************************************************************)
\* C24: on an engine that was constructed and given custom words, and that
\* was not initialized, getSuggestions(p) is not empty when p has at least
\* minWordLength characters and is a proper prefix of a custom word.
C24_CustomWordsSuggested ==
    /\ ret.op = "getSuggestions"
    /\ ~ret.before.engine.isInitialized
    /\ ret.before.engine.lastUpdateTime = 0
    /\ Len(TypedWord) >= ret.before.engine.settings.minWordLength
    /\ \E w \in ret.before.engine.wordCache : IsProperPrefix(TypedWord, w)
    => ret.result # <<>>

(***************************************************************************)
(* C22                                                                     *)
(***************************************************************************)
\* a word that is no string, is empty or has fewer than minWordLength
\* characters
Unqualified(word) ==
    \/ word = NotAString
    \/ Len(word) = 0
    \/ Len(word) < engine.settings.minWordLength

\* the strings that inserting the words of a list stores
StoredBy(words) ==
    SetOf(words) \cup {toLowerCase(w) : w \in SetOf(words)}

\* C22: with minWordLength fixed, after any sequence of buildTrie,
\* addCustomWords and reset calls the tree stores no word shorter than
\* minWordLength, and a word that is no string, is empty or is undersized
\* is ignored: the call returns, and the tree is the one the other words of
\* the list give, the tree as it was when there is no other word.
C22_UnqualifiedIgnored ==
    LET Kept(w) == ~Unqualified(w)
        kept == SelectSeq(ret.words, Kept)
    IN  /\ \A w \in StoredIn(root) :
               isString(w) /\ Len(w) >= engine.settings.minWordLength
        /\ ret.op = "addCustomWords" =>
               /\ ret.result
               /\ StoredIn(root) = StoredIn(ret.before.root) \cup StoredBy(kept)
               /\ kept = <<>> =>
                      root = ret.before.root /\ size(root) = size(ret.before.root)
        /\ ret.op = "buildTrie" /\ ret.words # <<>> =>
               /\ ret.result
               /\ root = TreeOf(kept)
               /\ size(root) = Cardinality(StoredBy(kept))

\* custom words that are the array and an undersized string were handed to
\* an engine that stored words, and it stores what it did
C22_Witness ==
    /\ ret.op = "addCustomWords"
    /\ NotAString \in SetOf(ret.words)
    /\ \E w \in SetOf(ret.words) : w # NotAString /\ Len(w) > 0 /\ Unqualified(w)
    /\ size(ret.before.root) > 0
    /\ root = ret.before.root

(***************************************************************************)
(* C23                                                                     *)
(***************************************************************************)
\* a word with a control character, an overlong word, or one character
\* three or more times
Degenerate(w) ==
    \/ \E i \in 1..Len(w) : w[i] \in {"\t", "\n", "\r", "\f"}
    \/ Len(w) > (IF Range(w) \cap {".", "_", "-", "(", "["} # {}
                 THEN 200 ELSE 100)
    \/ Len(w) >= 3 /\ \A i \in 1..Len(w) : w[i] = w[1]

\* C23: after any sequence of buildTrie and addCustomWords calls the tree
\* stores no word that has a control character, is longer than 100
\* characters (200 for an identifier with '.', '_', '-', '(' or '['), or is
\* one character repeated three or more times.
C23_DegenerateFiltered ==
    \A w \in StoredIn(root) : ~Degenerate(w)

(***************************************************************************)
(* C27                                                                     *)
(***************************************************************************)
\* C27: the list fuzzySearch returns is in the order of the edit distance
\* to the lowercased query, words at one distance are in the order of their
\* length, no word is in it twice, and it has at most maxResults entries.
C27_FuzzyOrder ==
    ret.op = "fuzzySearch" =>
        LET r == ret.result
            lowerQuery == toLowerCase(ret.query)
        IN  /\ \A i, j \in 1..Len(r) :
                   i < j =>
                       LET di == EditDistance(r[i], lowerQuery)
                           dj == EditDistance(r[j], lowerQuery)
                       IN  /\ di <= dj
                           /\ di = dj => Len(r[i]) <= Len(r[j])
            /\ NoDuplicates(r)
            /\ Len(r) <= ret.maxResults

\* three words came back: the first is nearer to the query than the second,
\* which the traversal had found before it, and the third is as far as the
\* second and longer
C27_Witness ==
    /\ ret.op = "fuzzySearch"
    /\ Len(ret.result) = 3
    /\ LET r == ret.result
           lowerQuery == toLowerCase(ret.query)
       IN  /\ EditDistance(r[1], lowerQuery) < EditDistance(r[2], lowerQuery)
           /\ EditDistance(r[2], lowerQuery) = EditDistance(r[3], lowerQuery)
           /\ Len(r[2]) < Len(r[3])
           /\ root[<<>>].children[1] = r[2][1]
           /\ r[1][1] # r[2][1]

(***************************************************************************)
(* C28                                                                     *)
(***************************************************************************)
\* C28: after any sequence of insert calls every node but the root that has
\* no children is terminal, the root is not terminal, every node hangs
\* under its parent by its last character, and the path of every terminal
\* node spells a string that an insert has stored: an inserted word or its
\* lowercased form.
C28_TreeShape ==
    /\ ~root[<<>>].isEndOfWord
    /\ \A node \in DOMAIN root :
           /\ node # <<>> /\ root[node].children = <<>> => root[node].isEndOfWord
           /\ root[node].isEndOfWord => node \in StoredStrings
           /\ NoDuplicates(root[node].children)
           /\ \A c \in Range(root[node].children) : Append(node, c) \in DOMAIN root
           /\ node # <<>> =>
                  LET parent == SubSeq(node, 1, Len(node) - 1)
                  IN  /\ parent \in DOMAIN root
                      /\ node[Len(node)] \in Range(root[parent].children)

\* three words are in the tree: one ends at a node that has a child, and one
\* has a capital, so that a node that is no end of a word leads to a leaf
C28_Witness ==
    /\ Cardinality(inserted) = 3
    /\ \E node \in DOMAIN root :
           node # <<>> /\ root[node].isEndOfWord /\ root[node].children # <<>>
    /\ \E node \in DOMAIN root :
           node # <<>> /\ ~root[node].isEndOfWord /\ root[node].children # <<>>
    /\ \E node \in DOMAIN root :
           root[node].isEndOfWord /\ root[node].children = <<>>
    /\ ret.op = "insert"

(***************************************************************************)
(* The content script                                                      *)
(***************************************************************************)

\* C25: after any number of createSuggestionBox() calls, those of repeated
\* init() calls on navigation included, the document holds exactly one
\* suggestion box.
C25_OneSuggestionBox ==
    ret.op \in {"createSuggestionBox", "init"} => page.suggestionBoxes = 1

\* the trees a rebuild, a reset or the constructor leaves: a new ACT, or the
\* tree of all the words of one set
WholeTrees ==
    {NewACT} \cup
        {TreeOf(words) : words \in (PageWordLists \ {<<>>}) \cup {fallbackWords}}

\* a rebuild is to come: a call waits for its extraction to return
RebuildPending == page.initializing + page.superseded + page.refreshing
                      + page.extracting > 0

\* C26: every getSuggestions call observes the whole tree of one rebuild (or
\* the empty tree of the constructor and of reset), never a tree with a part
\* of a word set, whatever the order of change callbacks, refresh(),
\* initialize() and completion requests.
C26_NoPartialTree ==
    ret.op = "getSuggestions" => ret.before.root \in WholeTrees

\* a completion request between two rebuilds: the tree of the earlier one
\* answers while the extraction for the next one is under way
C26_Witness ==
    /\ ret.op = "getSuggestions"
    /\ RebuildPending
    /\ ret.before.root \in WholeTrees \ {NewACT, TreeOf(fallbackWords)}
    /\ ret.result # <<>>

\* C29: an initialize() that was in flight when reset() ran neither sets
\* isInitialized nor installs its words when it resumes, so the engine stays
\* uninitialized, and getSuggestions returns [], until an initialize()
\* started after the reset ends.
C29_StaleInitializeDropped ==
    /\ ret.op = "init" /\ ret.result =>
           /\ engine.isInitialized = ret.before.engine.isInitialized
           /\ root = ret.before.root
           /\ engine.wordCache = ret.before.engine.wordCache
    /\ ret.op = "getSuggestions" /\ ~ret.before.engine.isInitialized =>
           ret.result = <<>>

\* C30: at most one observer of monitorForChanges is registered at any
\* time, so one content change starts at most one extraction.
C30_OneObserver ==
    /\ monitor.observers <= 1
    /\ ret.op = "contentChange" => page.extracting <= 1

====
